---- MODULE Spec2Model ----
(***************************************************************************)
(* A model of the single-particle mass-spectrometry tools:                 *)
(*   data_selector.py   - column extraction GUI with a cancellable worker  *)
(*   data_detector.py   - channel index, peak detection, event integration *)
(*                        and mass conversion                              *)
(*   data_calibrator.py - the calibration window, the per-standard channel *)
(*                        load and the weighted regression                 *)
(*                                                                         *)
(* Indices are 0-based as in the Python sources; At(s, i) reads a 0-based  *)
(* index of a TLA+ sequence.  A header line is a sequence of tab-separated *)
(* fields, each field a sequence of blank-separated words, so that         *)
(* str.split("\t") and str.split() are different functions of one line.    *)
(***************************************************************************)
EXTENDS Integers, Sequences, FiniteSets, TLC

(***************************************************************************)
(* Bounds of the model.                                                    *)
(***************************************************************************)
\* Largest number of data rows of an input file of the selector.
MaxRows == 3
\* Rows per chunk of the chunked read; the source sets 1000000 (line 68),
\* scaled down so that files of MaxRows rows span several chunks.
CHUNKSIZE == 2
\* Number of rows of the array the detector loads.
SeriesLen == 6
\* Largest number of rows of the calibration window; it opens with 3.
MaxCalRows == 3
\* Largest number of points wls is called with on its own.
MaxPoints == 3

(***************************************************************************)
(* Python built-ins used by the sources.                                   *)
(***************************************************************************)
At(s, i) == s[i + 1]

\* s[k:]
Drop(s, k) == IF k >= Len(s) THEN <<>> ELSE SubSeq(s, k + 1, Len(s))

RECURSIVE Flatten(_)
Flatten(ss) == IF ss = <<>> THEN <<>> ELSE Head(ss) \o Flatten(Tail(ss))

RECURSIVE SeqSum(_)
SeqSum(s) == IF s = <<>> THEN 0 ELSE Head(s) + SeqSum(Tail(s))

Range(s) == {s[i] : i \in 1..Len(s)}

Min2(a, b) == IF a < b THEN a ELSE b
Max2(a, b) == IF a < b THEN b ELSE a

\* The mass numbers the model's files may name, as written in a header.
MassWords == {"142", "175", "193", "195"}

\* int(word): the words of MassWords parse, any other word raises ValueError.
IsInt(w) == w \in MassWords
IntOf(w) == CASE w = "142" -> 142 [] w = "175" -> 175
              [] w = "193" -> 193 [] w = "195" -> 195

\* str(m) of a mass number.
StrOf(m) == CASE m = 142 -> "142" [] m = 175 -> "175"
              [] m = 193 -> "193" [] m = 195 -> "195"

\* list.index(v): the 0-based position of the first v, -1 standing for the
\* ValueError raised when v is not in the list.
IndexOf(s, v) ==
  IF v \in Range(s)
  THEN (CHOOSE i \in 1..Len(s) : s[i] = v /\ \A j \in 1..(i - 1) : s[j] # v) - 1
  ELSE -1

\* A set of integers as the ascending list a dict keyed 75..209 iterates it.
RECURSIVE Ascending(_)
Ascending(S) ==
  IF S = {} THEN <<>>
  ELSE LET m == CHOOSE x \in S : \A y \in S : x <= y
       IN <<m>> \o Ascending(S \ {m})

(***************************************************************************)
(* numpy float arithmetic, kept exact.  A float is the fraction n/d in      *)
(* lowest terms with d > 0, or one of the three values a float division    *)
(* by zero produces instead of raising: inf (1/0), -inf (-1/0), nan (0/0). *)
(* Rounding is left out: every finite result is the real number the        *)
(* expression denotes.  A zero is +0, the zero that s**2, a sum of weights *)
(* and np.std produce.                                                     *)
(***************************************************************************)
Sign(k) == IF k > 0 THEN 1 ELSE IF k < 0 THEN -1 ELSE 0
Abs(k) == IF k < 0 THEN -k ELSE k

RECURSIVE GCD(_, _)
GCD(a, b) == IF b = 0 THEN a ELSE GCD(b, a % b)

\* The float n/d.
Q(num, den) ==
  IF den = 0 THEN [n |-> Sign(num), d |-> 0]
  ELSE LET g == GCD(Abs(num), Abs(den))
           s == Sign(den)
       IN [n |-> (s * num) \div g, d |-> (s * den) \div g]

NaN == [n |-> 0, d |-> 0]
Zero == [n |-> 0, d |-> 1]
One == [n |-> 1, d |-> 1]
QInt(k) == [n |-> k, d |-> 1]

IsNaN(a) == a.n = 0 /\ a.d = 0
IsInf(a) == a.n # 0 /\ a.d = 0
IsFinite(a) == a.d # 0

\* a + b: inf + -inf is nan.
QAdd(a, b) ==
  IF a.d = 0 /\ b.d = 0 THEN (IF a.n = b.n THEN a ELSE NaN)
  ELSE Q(a.n * b.d + b.n * a.d, a.d * b.d)

QNeg(a) == [n |-> -a.n, d |-> a.d]
QSub(a, b) == QAdd(a, QNeg(b))

\* a * b: 0 * inf is nan.
QMul(a, b) == Q(a.n * b.n, a.d * b.d)

\* a / b: x / 0 is inf with the sign of x, 0 / 0 and inf / inf are nan; numpy
\* warns and goes on where a Python float would raise ZeroDivisionError.
QDiv(a, b) ==
  LET s == IF b.n < 0 THEN -1 ELSE 1
  IN Q(s * a.n * b.d, a.d * s * b.n)

\* np.sum(v)
RECURSIVE QSum(_)
QSum(v) == IF v = <<>> THEN Zero ELSE QAdd(Head(v), QSum(Tail(v)))

\* np.mean(v)
QMean(v) == QDiv(QSum(v), QInt(Len(v)))

\* The population variance np.std(v) is the square root of.
QVar(v) ==
  LET mu == QMean(v)
  IN QMean([i \in 1..Len(v) |-> QMul(QSub(v[i], mu), QSub(v[i], mu))])

\* A square root, a product or a quotient of square roots is sg * sqrt(sq),
\* sg the sign and sq the float under the root.
Surd(sg, sq) ==
  IF IsNaN(sq) THEN [sg |-> 0, sq |-> NaN]
  ELSE IF sq.n = 0 THEN [sg |-> 0, sq |-> Zero]
  ELSE [sg |-> sg, sq |-> sq]

SurdOf(a) == Surd(Sign(a.n), QMul(a, a))

\* np.sqrt(a): nan for a negative a.
Sqrt(a) == IF a.n < 0 THEN Surd(0, NaN) ELSE Surd(1, a)

SMul(s, t) == Surd(s.sg * t.sg, QMul(s.sq, t.sq))
SDiv(s, t) == Surd(s.sg * (IF t.sg < 0 THEN -1 ELSE 1), QDiv(s.sq, t.sq))

\* The largest k in lo..hi with k * k <= v.
RECURSIVE RootIn(_, _, _)
RootIn(v, lo, hi) ==
  IF lo >= hi THEN lo
  ELSE LET mid == (lo + hi + 1) \div 2
       IN IF mid * mid <= v THEN RootIn(v, mid, hi) ELSE RootIn(v, lo, mid - 1)

IsSquare(v) == LET k == RootIn(v, 0, Min2(v, 46340)) IN k * k = v
Root(v) == RootIn(v, 0, Min2(v, 46340))

\* The float a + s for a float a and a root s: [a, sg, sq] is a + sg*sqrt(sq),
\* the root folded into a when it is a float itself (sg = 0 then).
Real(a, s) ==
  LET rational == [a |-> a, sg |-> 0, sq |-> Zero]
  IN IF IsNaN(a) \/ IsNaN(s.sq) THEN [rational EXCEPT !.a = NaN]
     ELSE IF s.sg = 0 THEN rational
     ELSE IF IsInf(s.sq) THEN [rational EXCEPT !.a = QAdd(a, Q(s.sg, 0))]
     ELSE IF IsInf(a) THEN rational
     ELSE IF IsSquare(s.sq.n) /\ IsSquare(s.sq.d)
     THEN [rational EXCEPT !.a = QAdd(a, Q(s.sg * Root(s.sq.n), Root(s.sq.d)))]
     ELSE [a |-> a, sg |-> s.sg, sq |-> s.sq]

\* A result that is a number: neither nan nor an infinity.
IsNumber(r) == IsFinite(r.a)

(***************************************************************************)
(* Header lines.                                                           *)
(***************************************************************************)
\* first_line.split(): every blank-separated word of the line.
SplitWs(line) == Flatten(line)

\* f.readline()[:-1].split("\t"): the fields of the line.
SplitTab(line) == line

\* int(field) of a tab-separated field: a single integer word parses.
FieldIsInt(f) == Len(f) = 1 /\ IsInt(f[1])

\* [int(x) for x in first_line.split()[2:]]  (selector 102 and 203,
\* calibrator 260): ok is FALSE when some int(x) raises ValueError.
WsMasses(line) ==
  LET toks == Drop(SplitWs(line), 2)
  IN IF \A i \in 1..Len(toks) : IsInt(toks[i])
     THEN [ok |-> TRUE, masses |-> [i \in 1..Len(toks) |-> IntOf(toks[i])]]
     ELSE [ok |-> FALSE, masses |-> <<>>]

(***************************************************************************)
(* Input files of the selector: a header line and nrows data rows.  The    *)
(* cell of data row r (0-based) under header field c is the push counter   *)
(* r + 1 for c = 0 and 10 * mass + r for the field naming mass, so every   *)
(* column of a file carries values no other column carries.  A file with a *)
(* signal field lists the values of its mass columns instead.              *)
(***************************************************************************)
LabelPush == <<"Push", "number">>
LabelN == <<"N">>
LabelBad == <<"Push", "number", "x">>

Cell(file, r, c) ==
  IF c = 0 THEN r + 1
  ELSE IF "signal" \in DOMAIN file THEN At(file.signal[c], r)
  ELSE 10 * IntOf(At(file.header, c)[1]) + r

\* The column of the file headed by mass m (the file format's answer).
ColumnOf(file, m) ==
  CHOOSE c \in 1..(Len(file.header) - 1) : At(file.header, c) = <<StrOf(m)>>

\* The files path 1 and path 2 may hold.
FileSet1 ==
  [header : { <<LabelPush, <<"142">>, <<"175">> >>,
              <<LabelN, <<"142">>, <<"175">> >> },
   nrows : 1..MaxRows]
FileSet2 ==
  [header : { <<LabelPush, <<"175">>, <<"142">> >>,
              <<LabelBad, <<"142">>, <<"175">> >> },
   nrows : {1}]

\* The paths the file dialog can return.
Paths == {1, 2}
PathChoices == { <<1>>, <<1, 2>>, <<2, 1>> }

VARIABLES
  \* --- data_selector.py ---
  disk,            \* path -> file: the input files as they are on disk
  path_var,        \* tk.StringVar: the selected paths ("" is <<>>)
  number_vars,     \* the masses whose BooleanVar is set
  number_buttons,  \* the masses whose Checkbutton is enabled
  save_button, clear_button, cancel_button,   \* "normal" | "disabled"
  progress_var,    \* the text of the progress label
  thread_running,  \* the global cancellation flag
  pc,              \* the worker thread's position ("idle": no thread)
  args,            \* the worker's arguments (selected_numbers, paths)
  n,               \* the worker's file index (enumerate(paths))
  gen,             \* the locals of the suspended data_selector generator
  out,             \* per input file: the output file written so far
  yields,          \* per input file: the progress values yielded so far
  cancelSnap,      \* what had been written when cancel_thread first ran
  \* --- loading a channel by identifier (detector 42-56, calibrator 255-281,
  \*     selector 100-103) ---
  ld_file,         \* the data file read
  ld_load,         \* the detector's LOAD_MASSES
  ld_mass,         \* the mass asked of the calibration and of the selector
  ld_det,          \* outcome of the detector's whole-file load
  ld_cal,          \* outcome of the calibration's per-standard load
  ld_sel,          \* outcome of the selector's column lookup
  \* --- data_detector.py ---
  det_pc,          \* position of the script: "peaks", "integrate", "done"
  ar,              \* the loaded array, one series per mass of LOAD_MASSES
  MIN_EVENT_LENGTH, MAX_EVENT_LENGTH,   \* the width bounds of find_peaks
  det_i,           \* i, the index of the loop over the columns of ar
  peaks_by_mass,   \* per mass: the peaks find_peaks returned
  events_by_mass,  \* per mass: the (left, right) pairs
  warnings,        \* the masses the "no event" message was printed for
  sum_I,           \* the integral of every event
  X0, X1,          \* the intercept and the slope inserted from calibrate
  event_mass_interest,   \* the mass of every event
  \* --- data_calibrator.py ---
  rows,            \* self.rows: per row the file label and the concentration
  mass_entry,      \* the text of the mass entry
  cal_out,         \* what the calibrate call just made has shown, if any
  \* --- wls(x, y, w) called on its own ---
  wls_x, wls_y, wls_w,   \* the arguments
  wls_out          \* the value returned

selVars == <<disk, path_var, number_vars, number_buttons, save_button,
             clear_button, cancel_button, progress_var, thread_running,
             pc, args, n, gen, out, yields, cancelSnap>>

loadVars == <<ld_file, ld_load, ld_mass, ld_det, ld_cal, ld_sel>>

detVars == <<det_pc, ar, MIN_EVENT_LENGTH, MAX_EVENT_LENGTH, det_i,
             peaks_by_mass, events_by_mass, warnings, sum_I,
             X0, X1, event_mass_interest>>

calVars == <<rows, mass_entry, cal_out>>

wlsVars == <<wls_x, wls_y, wls_w, wls_out>>

\* What each tool leaves alone: the state of the other tools.
notSel == <<loadVars, detVars, calVars, wlsVars>>
notLoad == <<selVars, detVars, calVars, wlsVars>>
notDet == <<selVars, loadVars, calVars, wlsVars>>
notCal == <<selVars, loadVars, detVars, wlsVars>>
notWls == <<selVars, loadVars, detVars, calVars>>

vars == <<selVars, loadVars, detVars, calVars, wlsVars>>

(***************************************************************************)
(* data_selector.py                                                        *)
(***************************************************************************)
ButtonRange == 75..209

Unopened == [opened |-> FALSE, header |-> <<>>, rows |-> <<>>]
NoGen == [columns |-> <<>>, lines |-> 0, next |-> 0]
NoSnap == [taken |-> FALSE, chunks |-> 0, opens |-> 0, tested |-> FALSE]

\* line_count(infile): the header line and one line per data row.
line_count(file) == 1 + file.nrows

\* columns = [0] + [available_masses.index(int(i)) for i in masses], with
\* available_masses parsed from the header by split()[2:]; ok is FALSE
\* when int() or list.index() raises ValueError.
SelectorColumns(header, masses) ==
  LET parsed == WsMasses(header)
      idx == [i \in 1..Len(masses) |-> IndexOf(parsed.masses, masses[i])]
  IN IF ~parsed.ok THEN [ok |-> FALSE, error |-> "ValueError: invalid literal for int()", columns |-> <<>>]
     ELSE IF \E i \in 1..Len(masses) : idx[i] = -1
     THEN [ok |-> FALSE, error |-> "ValueError: is not in list", columns |-> <<>>]
     ELSE [ok |-> TRUE, error |-> "", columns |-> <<0>> \o idx]

\* The rows [first, last] of the file as chunk.iloc[:, columns] writes them.
ChunkRows(file, columns, first, last) ==
  [k \in 1..(last - first + 1) |->
     [j \in 1..Len(columns) |-> Cell(file, first + k - 1, columns[j])]]

\* A progress that reports the share of the file still to read.
Progress_remaining(lastIndex, lines) ==
  [num |-> (lines - lastIndex) * 100, den |-> lines]

\* 100 - (1 - chunk.index[-1] / lines) * 100 as the exact fraction num/den.
Progress(lastIndex, lines) ==
  [num |-> 100 * lines - (lines - lastIndex) * 100, den |-> lines]

\* A worker that never looks at the flag.
ShouldBreak_never == FALSE

\* The test `if not thread_running: break` of the worker's loops.
ShouldBreak == ~thread_running

ChunksWritten == SeqSum([i \in 1..Len(yields) |-> Len(yields[i])])
FilesOpened == Cardinality({i \in 1..Len(out) : out[i].opened})

\* select_file's loop over the chosen files, from file i on.
RECURSIVE SelectLoop(_, _, _)
SelectLoop(fps, i, st) ==
  IF i > Len(fps) THEN st
  ELSE LET parsed == WsMasses(disk[fps[i]].header)
       IN IF ~parsed.ok
          THEN SelectLoop(fps, i + 1,
                 [st EXCEPT !.vars = {}, !.buttons = {}])
          ELSE LET av == {m \in st.available : m \in Range(parsed.masses)}
               IN SelectLoop(fps, i + 1,
                    [st EXCEPT !.available = av, !.vars = {},
                               !.buttons = av, !.path = fps])

select_file(fps) ==
  /\ IF fps = <<>>
     THEN UNCHANGED <<path_var, number_vars, number_buttons>>
     ELSE LET st == SelectLoop(fps, 1,
                      [available |-> ButtonRange, vars |-> number_vars,
                       buttons |-> number_buttons, path |-> path_var])
          IN /\ path_var' = st.path
             /\ number_vars' = st.vars
             /\ number_buttons' = st.buttons
  /\ UNCHANGED <<disk, save_button, clear_button, cancel_button, progress_var,
                 thread_running, pc, args, n, gen, out, yields, cancelSnap>>
  /\ UNCHANGED notSel

\* The user ticks or unticks an enabled Checkbutton.
toggle(m) ==
  /\ m \in number_buttons
  /\ number_vars' = IF m \in number_vars THEN number_vars \ {m}
                    ELSE number_vars \cup {m}
  /\ UNCHANGED <<disk, path_var, number_buttons, save_button, clear_button,
                 cancel_button, progress_var, thread_running, pc,
                 args, n, gen, out, yields, cancelSnap>>
  /\ UNCHANGED notSel

clear_selection ==
  /\ clear_button = "normal"
  /\ number_vars' = {}
  /\ UNCHANGED <<disk, path_var, number_buttons, save_button, clear_button,
                 cancel_button, progress_var, thread_running, pc,
                 args, n, gen, out, yields, cancelSnap>>
  /\ UNCHANGED notSel

\* messagebox.showerror is a modal dialog: once dismissed it leaves no state.
\* Every asksaveasfilename dialog is answered with a file name.
save_selection ==
  /\ save_button = "normal"
  /\ IF path_var = <<>>
     THEN /\ UNCHANGED <<save_button, clear_button, cancel_button,
                         thread_running, pc, args, n, gen, out, yields,
                         cancelSnap>>
     ELSE IF number_vars = {}
     THEN /\ UNCHANGED <<save_button, clear_button, cancel_button,
                         thread_running, pc, args, n, gen, out, yields,
                         cancelSnap>>
     ELSE /\ save_button' = "disabled"
          /\ clear_button' = "disabled"
          /\ cancel_button' = "normal"
          /\ thread_running' = TRUE
          /\ pc' = "for_file"
          /\ args' = [selected_numbers |-> Ascending(number_vars),
                      paths |-> path_var]
          /\ n' = 0
          /\ gen' = NoGen
          /\ out' = [i \in 1..Len(path_var) |-> Unopened]
          /\ yields' = [i \in 1..Len(path_var) |-> <<>>]
          /\ cancelSnap' = NoSnap
  /\ UNCHANGED <<disk, path_var, number_vars, number_buttons, progress_var>>
  /\ UNCHANGED notSel

cancel_thread ==
  /\ cancel_button = "normal"
  /\ thread_running' = FALSE
  /\ cancelSnap' = IF cancelSnap.taken THEN cancelSnap
                   ELSE [taken |-> TRUE, chunks |-> ChunksWritten,
                         opens |-> FilesOpened,
                         tested |-> pc \in {"buttons", "idle"}]
  /\ UNCHANGED <<disk, path_var, number_vars, number_buttons, save_button,
                 clear_button, cancel_button, progress_var, pc,
                 args, n, gen, out, yields>>
  /\ UNCHANGED notSel

\* long_running_function, lines 160-163: the head of the loop over the files.
W_ForFile ==
  /\ pc = "for_file"
  /\ IF n >= Len(args.paths) \/ ShouldBreak
     THEN /\ pc' = "final"
          /\ UNCHANGED progress_var
     ELSE /\ pc' = "open"
          /\ progress_var' = "Getting file size..."
  /\ UNCHANGED <<disk, path_var, number_vars, number_buttons, save_button,
                 clear_button, cancel_button, thread_running,
                 args, n, gen, out, yields, cancelSnap>>
  /\ UNCHANGED notSel

\* data_selector, lines 100-107: the generator runs up to its chunk loop.
\* A ValueError raised here ends the thread: nothing catches it.
W_Open ==
  /\ pc = "open"
  /\ LET file == disk[At(args.paths, n)]
         cols == SelectorColumns(file.header, args.selected_numbers)
     IN IF ~cols.ok
        THEN /\ pc' = "crashed"
             /\ UNCHANGED <<gen, out>>
        ELSE /\ pc' = "chunk"
             /\ gen' = [columns |-> cols.columns, lines |-> line_count(file),
                        next |-> 0]
             /\ out' = [out EXCEPT ![n + 1] =
                          [opened |-> TRUE,
                           header |-> <<"Push number">> \o
                             [i \in 1..Len(args.selected_numbers) |->
                                StrOf(args.selected_numbers[i])],
                           rows |-> <<>>]]
  /\ UNCHANGED <<disk, path_var, number_vars, number_buttons, save_button,
                 clear_button, cancel_button, progress_var, thread_running,
                 args, n, yields, cancelSnap>>
  /\ UNCHANGED notSel

\* data_selector, lines 108-110: the next chunk is read and written and its
\* progress yielded, or the reader is exhausted and the generator returns.
W_Chunk ==
  /\ pc = "chunk"
  /\ LET file == disk[At(args.paths, n)]
         last == Min2(gen.next + CHUNKSIZE, file.nrows) - 1
     IN IF gen.next < file.nrows
        THEN /\ out' = [out EXCEPT ![n + 1].rows =
                          @ \o ChunkRows(file, gen.columns, gen.next, last)]
             /\ yields' = [yields EXCEPT ![n + 1] =
                             Append(@, Progress(last, gen.lines))]
             /\ gen' = [gen EXCEPT !.next = last + 1]
             /\ pc' = "yielded"
             /\ UNCHANGED n
        ELSE /\ n' = n + 1
             /\ gen' = NoGen
             /\ pc' = "for_file"
             /\ UNCHANGED <<out, yields>>
  /\ UNCHANGED <<disk, path_var, number_vars, number_buttons, save_button,
                 clear_button, cancel_button, progress_var, thread_running,
                 args, cancelSnap>>
  /\ UNCHANGED notSel

\* long_running_function, lines 165-167: the body of the loop over the chunks.
W_Yielded ==
  /\ pc = "yielded"
  /\ IF ShouldBreak
     THEN /\ n' = n + 1
          /\ gen' = NoGen
          /\ pc' = "for_file"
          /\ UNCHANGED progress_var
     ELSE /\ progress_var' = "Progress"
          /\ pc' = "chunk"
          /\ UNCHANGED <<n, gen>>
  /\ UNCHANGED <<disk, path_var, number_vars, number_buttons, save_button,
                 clear_button, cancel_button, thread_running,
                 args, out, yields, cancelSnap>>
  /\ UNCHANGED notSel

\* long_running_function, lines 168-171.
W_Final ==
  /\ pc = "final"
  /\ progress_var' = IF thread_running THEN "Modified files saved."
                     ELSE "Operation canceled by user."
  /\ pc' = "buttons"
  /\ UNCHANGED <<disk, path_var, number_vars, number_buttons, save_button,
                 clear_button, cancel_button, thread_running,
                 args, n, gen, out, yields, cancelSnap>>
  /\ UNCHANGED notSel

\* long_running_function, lines 173-175.
W_Buttons ==
  /\ pc = "buttons"
  /\ save_button' = "normal"
  /\ clear_button' = "normal"
  /\ cancel_button' = "disabled"
  /\ pc' = "idle"
  /\ UNCHANGED <<disk, path_var, number_vars, number_buttons, progress_var,
                 thread_running, args, n, gen, out, yields,
                 cancelSnap>>
  /\ UNCHANGED notSel

Worker == W_ForFile \/ W_Open \/ W_Chunk \/ W_Yielded \/ W_Final \/ W_Buttons

SelStart ==
  /\ disk \in {d \in [Paths -> FileSet1 \cup FileSet2] :
                 d[1] \in FileSet1 /\ d[2] \in FileSet2}
  /\ path_var = <<>>
  /\ number_vars = {}
  /\ number_buttons = {}
  /\ save_button = "normal"
  /\ clear_button = "normal"
  /\ cancel_button = "disabled"
  /\ progress_var = ""
  /\ thread_running = FALSE
  /\ pc = "idle"
  /\ args = [selected_numbers |-> <<>>, paths |-> <<>>]
  /\ n = 0
  /\ gen = NoGen
  /\ out = <<>>
  /\ yields = <<>>
  /\ cancelSnap = NoSnap

SelStep ==
  \/ \E fps \in PathChoices \cup {<<>>} : select_file(fps)
  \/ \E m \in number_buttons : toggle(m)
  \/ clear_selection
  \/ save_selection
  \/ cancel_thread
  \/ W_ForFile
  \/ W_Open
  \/ W_Chunk
  \/ W_Yielded
  \/ W_Final
  \/ W_Buttons



\* The selector before any file is chosen, for the runs of the other tools.
SelOff ==
  /\ disk = [p \in Paths |-> [header |-> <<LabelPush>>, nrows |-> 1]]
  /\ path_var = <<>>
  /\ number_vars = {}
  /\ number_buttons = {}
  /\ save_button = "normal"
  /\ clear_button = "normal"
  /\ cancel_button = "disabled"
  /\ progress_var = ""
  /\ thread_running = FALSE
  /\ pc = "idle"
  /\ args = [selected_numbers |-> <<>>, paths |-> <<>>]
  /\ n = 0
  /\ gen = NoGen
  /\ out = <<>>
  /\ yields = <<>>
  /\ cancelSnap = NoSnap

(***************************************************************************)
(* Loading a channel by its identifier.                                    *)
(***************************************************************************)
NotRun == [ran |-> FALSE]

\* np.loadtxt(path, delimiter="\t", skiprows=1, usecols=cols): one series
\* per entry of cols, in the order of cols.
loadtxt(file, cols) ==
  [j \in 1..Len(cols) |-> [r \in 1..file.nrows |-> Cell(file, r - 1, cols[j])]]

\* available = [int(m) for m in f.readline()[:-1].split("\t")[1:]]
TabMasses(line) ==
  LET fields == Drop(SplitTab(line), 1)
  IN IF \A i \in 1..Len(fields) : FieldIsInt(fields[i])
     THEN [ok |-> TRUE, masses |-> [i \in 1..Len(fields) |-> IntOf(fields[i][1])]]
     ELSE [ok |-> FALSE, masses |-> <<>>]

\* masses = dict(zip(available, list(range(1, len(available) + 1)))): the
\* offset of an identifier is that of its last occurrence.
ChannelIndex(available) ==
  [m \in Range(available) |->
     CHOOSE k \in 1..Len(available) :
       available[k] = m /\ \A j \in (k + 1)..Len(available) : available[j] # m]

\* ', '.join(m for m in masses): str.join raises TypeError on the first item
\* that is not a str, and the keys of masses are ints.
JoinRaises(keys) == keys # <<>>

\* data_detector.py lines 42-56: the channel index, the assertion on
\* LOAD_MASSES and the whole-file load.
DetectorLoadOf(file, load) ==
  LET parsed == TabMasses(file.header)
      masses == ChannelIndex(parsed.masses)
      absent == {i \in 1..Len(load) : load[i] \notin DOMAIN masses}
      first == CHOOSE i \in absent : \A j \in absent : i <= j
  IN IF ~parsed.ok
     THEN [ran |-> TRUE, ok |-> FALSE, raised |-> "ValueError",
           says_mass |-> {}, says_available |-> FALSE, available |-> <<>>,
           cols |-> <<>>, data |-> <<>>]
     ELSE IF absent # {}
     THEN IF JoinRaises(parsed.masses)
          THEN [ran |-> TRUE, ok |-> FALSE, raised |-> "TypeError",
                says_mass |-> {}, says_available |-> FALSE,
                available |-> <<>>, cols |-> <<>>, data |-> <<>>]
          ELSE [ran |-> TRUE, ok |-> FALSE, raised |-> "AssertionError",
                says_mass |-> {load[first]}, says_available |-> TRUE,
                available |-> <<>>, cols |-> <<>>, data |-> <<>>]
     ELSE LET cols == [i \in 1..Len(load) |-> masses[load[i]]]
          IN [ran |-> TRUE, ok |-> TRUE, raised |-> "",
              says_mass |-> {}, says_available |-> FALSE, available |-> <<>>,
              cols |-> cols, data |-> loadtxt(file, cols)]

\* data_calibrator.py lines 257-273: the load of one standard's signal.
CalibrateLoadOf(file, mass) ==
  LET parsed == WsMasses(file.header)
  IN IF ~parsed.ok
     THEN [ran |-> TRUE, ok |-> FALSE, raised |-> "ValueError",
           says_mass |-> {}, says_available |-> FALSE, available |-> <<>>,
           cols |-> <<>>, data |-> <<>>]
     ELSE IF mass \notin Range(parsed.masses)
     THEN [ran |-> TRUE, ok |-> FALSE, raised |-> "showerror",
           says_mass |-> {mass}, says_available |-> TRUE,
           available |-> parsed.masses, cols |-> <<>>, data |-> <<>>]
     ELSE LET cols == <<IndexOf(parsed.masses, mass) + 1>>
          IN [ran |-> TRUE, ok |-> TRUE, raised |-> "",
              says_mass |-> {}, says_available |-> FALSE, available |-> <<>>,
              cols |-> cols, data |-> loadtxt(file, cols)]

\* data_selector.py lines 100-103 called for one mass: list.index raises
\* ValueError('<mass> is not in list') before the output file is opened.
SelectorLookupOf(file, mass) ==
  LET cols == SelectorColumns(file.header, <<mass>>)
      parsed == WsMasses(file.header)
  IN IF cols.ok
     THEN [ran |-> TRUE, ok |-> TRUE, raised |-> "",
           says_mass |-> {}, says_available |-> FALSE, available |-> <<>>,
           cols |-> cols.columns, data |-> <<>>]
     ELSE [ran |-> TRUE, ok |-> FALSE, raised |-> "ValueError",
           says_mass |-> IF parsed.ok THEN {mass} ELSE {},
           says_available |-> FALSE, available |-> <<>>,
           cols |-> <<>>, data |-> <<>>]

DetectorLoad ==
  /\ ~ld_det.ran
  /\ ld_det' = DetectorLoadOf(ld_file, ld_load)
  /\ UNCHANGED <<ld_file, ld_load, ld_mass, ld_cal, ld_sel>>
  /\ UNCHANGED notLoad

CalibrateLoad ==
  /\ ~ld_cal.ran
  /\ ld_cal' = CalibrateLoadOf(ld_file, ld_mass)
  /\ UNCHANGED <<ld_file, ld_load, ld_mass, ld_det, ld_sel>>
  /\ UNCHANGED notLoad

SelectorLookup ==
  /\ ~ld_sel.ran
  /\ ld_sel' = SelectorLookupOf(ld_file, ld_mass)
  /\ UNCHANGED <<ld_file, ld_load, ld_mass, ld_det, ld_cal>>
  /\ UNCHANGED notLoad

LoadHeaders ==
  { <<LabelPush, <<"142">>, <<"175">>, <<"193">> >>,
    <<LabelN, <<"142">>, <<"175">>, <<"193">> >>,
    <<LabelPush, <<"175">>, <<"142">> >>,
    <<LabelN, <<"193">>, <<"175">> >>,
    <<LabelPush>>,
    <<LabelN>> }

LoadChoices == { <<142>>, <<175, 142>>, <<142, 175, 193>>, <<193, 195>> }

LoadStart ==
  /\ ld_file \in [header : LoadHeaders, nrows : 1..MaxRows]
  /\ ld_load \in LoadChoices
  /\ ld_mass \in {142, 175, 193}
  /\ ld_det = NotRun
  /\ ld_cal = NotRun
  /\ ld_sel = NotRun

LoadOff ==
  /\ ld_file = [header |-> <<LabelPush>>, nrows |-> 1]
  /\ ld_load = <<>>
  /\ ld_mass = 142
  /\ ld_det = NotRun
  /\ ld_cal = NotRun
  /\ ld_sel = NotRun

LoadStep ==
  \/ DetectorLoad
  \/ CalibrateLoad
  \/ SelectorLookup

(***************************************************************************)
(* data_detector.py: peak detection and event integration.  The series are *)
(* integer valued; the interpolated positions of scipy are kept as exact   *)
(* fractions.                                                              *)
(***************************************************************************)
LOAD_MASSES == <<142, 175, 193, 195>>
MASS_FOR_SELECTION == 193
MASS_OF_INTEREST == 175

\* mass_dict = dict(zip(LOAD_MASSES, range(len(LOAD_MASSES))))
mass_dict == [m \in Range(LOAD_MASSES) |-> IndexOf(LOAD_MASSES, m)]

\* scipy _local_maxima_1d: i_ahead, the end of the plateau that starts at i.
RECURSIVE PlateauEnd(_, _, _)
PlateauEnd(x, p, a) ==
  IF a < Len(x) - 1 /\ At(x, a) = At(x, p) THEN PlateauEnd(x, p, a + 1) ELSE a

\* scipy _local_maxima_1d from index p on: the midpoints of the plateaus
\* that rise on the left and fall on the right, in ascending order.
RECURSIVE LocalMaxima(_, _)
LocalMaxima(x, p) ==
  IF p >= Len(x) - 1 THEN <<>>
  ELSE IF At(x, p - 1) < At(x, p)
       THEN LET a == PlateauEnd(x, p, p + 1)
            IN IF At(x, a) < At(x, p)
               THEN <<(p + a - 1) \div 2>> \o LocalMaxima(x, a + 1)
               ELSE LocalMaxima(x, p + 1)
       ELSE LocalMaxima(x, p + 1)

\* scipy _peak_prominences: the scan to one side (step -1 or +1) of the
\* peak for the lowest sample before a higher one.
RECURSIVE BaseScan(_, _, _, _, _, _)
BaseScan(x, peak, step, k, mn, base) ==
  IF 0 <= k /\ k <= Len(x) - 1 /\ At(x, k) <= At(x, peak)
  THEN IF At(x, k) < mn
       THEN BaseScan(x, peak, step, k + step, At(x, k), k)
       ELSE BaseScan(x, peak, step, k + step, mn, base)
  ELSE [min |-> mn, base |-> base]

Prominence(x, peak) ==
  LET l == BaseScan(x, peak, -1, peak, At(x, peak), peak)
      r == BaseScan(x, peak, 1, peak, At(x, peak), peak)
  IN [prominence |-> At(x, peak) - Max2(l.min, r.min),
      left_base |-> l.base, right_base |-> r.base]

\* scipy _peak_widths: the walk from the peak to one side while the series
\* is above the evaluation height hs/rd, no further than the base.
RECURSIVE WalkLeft(_, _, _, _, _)
WalkLeft(x, k, i_min, hs, rd) ==
  IF i_min < k /\ hs < rd * At(x, k) THEN WalkLeft(x, k - 1, i_min, hs, rd) ELSE k

RECURSIVE WalkRight(_, _, _, _, _)
WalkRight(x, k, i_max, hs, rd) ==
  IF k < i_max /\ hs < rd * At(x, k) THEN WalkRight(x, k + 1, i_max, hs, rd) ELSE k

\* scipy _peak_widths at rel_height = rn/rd: left_ip = li + lnum/lden and
\* right_ip = ri - rnum/rden, interpolated where the sample is below the
\* evaluation height.
PeakEdges(x, peak, rn, rd) ==
  LET pr == Prominence(x, peak)
      hs == rd * At(x, peak) - rn * pr.prominence
      li == WalkLeft(x, peak, pr.left_base, hs, rd)
      ri == WalkRight(x, peak, pr.right_base, hs, rd)
      lint == rd * At(x, li) < hs
      rint == rd * At(x, ri) < hs
  IN [li |-> li,
      lnum |-> IF lint THEN hs - rd * At(x, li) ELSE 0,
      lden |-> IF lint THEN rd * (At(x, li + 1) - At(x, li)) ELSE 1,
      ri |-> ri,
      rnum |-> IF rint THEN hs - rd * At(x, ri) ELSE 0,
      rden |-> IF rint THEN rd * (At(x, ri - 1) - At(x, ri)) ELSE 1]

\* find_peaks' width condition, evaluated at rel_height 0.5:
\* lo <= right_ip - left_ip <= hi.
WidthWithin(x, peak, lo, hi) ==
  LET e == PeakEdges(x, peak, 1, 2)
      d == e.lden * e.rden
      w == (e.ri - e.li) * d - e.rnum * e.lden - e.lnum * e.rden
  IN lo * d <= w /\ w <= hi * d

RECURSIVE KeepWidth(_, _, _, _)
KeepWidth(x, peaks, lo, hi) ==
  IF peaks = <<>> THEN <<>>
  ELSE (IF WidthWithin(x, Head(peaks), lo, hi) THEN <<Head(peaks)>> ELSE <<>>)
         \o KeepWidth(x, Tail(peaks), lo, hi)

Reverse(s) == [k \in 1..Len(s) |-> s[Len(s) + 1 - k]]

\* A find_peaks that returns the qualifying peaks last first.
find_peaks_reversed(x, lo, hi) == Reverse(KeepWidth(x, LocalMaxima(x, 1), lo, hi))

\* scipy.signal.find_peaks(x, width=(lo, hi))[0]
find_peaks(x, lo, hi) == KeepWidth(x, LocalMaxima(x, 1), lo, hi)

\* A pair built as zip(right, left).
Event_swapped(x, peak) ==
  LET e == PeakEdges(x, peak, 1, 1)
  IN << (e.ri * e.rden - e.rnum) \div e.rden, (e.li * e.lden + e.lnum) \div e.lden >>

\* (left.astype(int), right.astype(int)) of peak_widths(x, peaks,
\* rel_height=1.0): the positions truncated towards zero.
Event(x, peak) ==
  LET e == PeakEdges(x, peak, 1, 1)
  IN << (e.li * e.lden + e.lnum) \div e.lden, (e.ri * e.rden - e.rnum) \div e.rden >>

\* A peak_widths that cannot take an empty array of peaks.
peak_widths_accepts_nonempty(peaks) == peaks # <<>>

\* scipy.signal.peak_widths takes any array of peaks, the empty one too.
peak_widths_accepts(peaks) == TRUE

\* A slice that takes the end index too.
PySlice_inclusive(col, a, b) ==
  SubSeq(col, Max2(a, 0) + 1, Min2(b + 1, Len(col)))

\* col[a:b]: negative indices count from the end, both are clipped to the
\* length, and an empty range gives an empty array.
PySlice(col, a, b) ==
  LET lo == IF a < 0 THEN Max2(a + Len(col), 0) ELSE Min2(a, Len(col))
      hi == IF b < 0 THEN Max2(b + Len(col), 0) ELSE Min2(b, Len(col))
  IN SubSeq(col, lo + 1, hi)

\* Lines 67-76: one turn of the loop over the columns of ar.
DetectPeaks ==
  /\ det_pc = "peaks"
  /\ LET x == At(ar, det_i)
         m == At(LOAD_MASSES, det_i)
         peaks == find_peaks(x, MIN_EVENT_LENGTH, MAX_EVENT_LENGTH)
     IN /\ warnings' = IF peaks = <<>> THEN Append(warnings, m) ELSE warnings
        /\ peaks_by_mass' = (m :> peaks) @@ peaks_by_mass
        /\ IF peak_widths_accepts(peaks)
           THEN /\ events_by_mass' =
                     (m :> [k \in 1..Len(peaks) |-> Event(x, peaks[k])])
                       @@ events_by_mass
                /\ det_i' = det_i + 1
                /\ det_pc' = IF det_i + 1 < Len(ar) THEN "peaks" ELSE "integrate"
           ELSE /\ det_pc' = "error"
                /\ UNCHANGED <<events_by_mass, det_i>>
  /\ UNCHANGED <<ar, MIN_EVENT_LENGTH, MAX_EVENT_LENGTH, sum_I,
                 X0, X1, event_mass_interest>>
  /\ UNCHANGED notDet

\* Lines 80-88: the integral of the mass of interest over every event of
\* the selection mass.
Integrate ==
  /\ det_pc = "integrate"
  /\ LET sides == events_by_mass[MASS_FOR_SELECTION]
         col == At(ar, mass_dict[MASS_OF_INTEREST])
     IN sum_I' = [k \in 1..Len(sides) |->
                    SeqSum(PySlice(col, sides[k][1], sides[k][2]))]
  /\ det_pc' = "done"
  /\ UNCHANGED <<ar, MIN_EVENT_LENGTH, MAX_EVENT_LENGTH, det_i, peaks_by_mass,
                 events_by_mass, warnings, X0, X1, event_mass_interest>>
  /\ UNCHANGED notDet

\* DT = 13e-6, FLOW = 0.5, TE = 0.1
DT == Q(13, 1000000)
FLOW == Q(1, 2)
TE == Q(1, 10)

\* X0 = ... and X1 = ... as the file has them, before a value is inserted.
Ellipsis == "..."

\* The (intercept, slope) pairs inserted from a calibration.
CalibrationResults == { <<Zero, Zero>>, <<One, QInt(2)>>, <<One, QInt(-2)>> }

\* Lines 92-99: event_mass_interest = (sum_I - X0) / X1 * DT * FLOW / TE, on
\* the numpy array sum_I; x0 and x1 are the values inserted for X0 and X1.
\* No line tests X1, and a numpy division by zero raises nothing.
mass_conversion(x0, x1) ==
  /\ det_pc = "done"
  /\ X0' = x0
  /\ X1' = x1
  /\ event_mass_interest' =
       [k \in 1..Len(sum_I) |->
          QDiv(QMul(QMul(QDiv(QSub(QInt(sum_I[k]), x0), x1), DT), FLOW), TE)]
  /\ det_pc' = "converted"
  /\ UNCHANGED <<ar, MIN_EVENT_LENGTH, MAX_EVENT_LENGTH, det_i, peaks_by_mass,
                 events_by_mass, warnings, sum_I>>
  /\ UNCHANGED notDet

\* The sample values of the series the model enumerates.
Levels == {0, 1, 2, 3}

FlatZero == [k \in 1..SeriesLen |-> 0]
Ramp == [k \in 1..SeriesLen |-> k]
Bump == [k \in 1..SeriesLen |-> Min2(k - 1, SeriesLen - k)]

WidthPairs == { <<0, SeriesLen>>, <<1, 2>> }

DetStart ==
  /\ det_pc = "peaks"
  /\ \E sel \in [1..SeriesLen -> Levels] : ar = <<FlatZero, Ramp, sel, Bump>>
  /\ \E w \in WidthPairs : MIN_EVENT_LENGTH = w[1] /\ MAX_EVENT_LENGTH = w[2]
  /\ det_i = 0
  /\ peaks_by_mass = <<>>
  /\ events_by_mass = <<>>
  /\ warnings = <<>>
  /\ sum_I = <<>>
  /\ X0 = Ellipsis
  /\ X1 = Ellipsis
  /\ event_mass_interest = <<>>

DetOff ==
  /\ det_pc = "off"
  /\ ar = <<>>
  /\ MIN_EVENT_LENGTH = 0
  /\ MAX_EVENT_LENGTH = 0
  /\ det_i = 0
  /\ peaks_by_mass = <<>>
  /\ events_by_mass = <<>>
  /\ warnings = <<>>
  /\ sum_I = <<>>
  /\ X0 = Ellipsis
  /\ X1 = Ellipsis
  /\ event_mass_interest = <<>>

DetStep ==
  \/ DetectPeaks
  \/ Integrate
  \/ \E c \in CalibrationResults : mass_conversion(c[1], c[2])

(***************************************************************************)
(* data_calibrator.py: the weighted statistics and the regression.         *)
(***************************************************************************)
\* A list of integers as an array of floats.
Floats(v) == [i \in 1..Len(v) |-> QInt(v[i])]

\* x * w, elementwise.
VecMul(x, w) == [i \in 1..Len(x) |-> QMul(x[i], w[i])]

\* m(x, w) = np.sum(x * w) / np.sum(w)
m_w(x, w) == QDiv(QSum(VecMul(x, w)), QSum(w))

\* cov(x, y, w) = np.sum(w * (x - m(x, w)) * (y - m(y, w))) / np.sum(w)
cov(x, y, w) ==
  LET mx == m_w(x, w)
      my == m_w(y, w)
  IN QDiv(QSum([i \in 1..Len(x) |->
                  QMul(QMul(w[i], QSub(x[i], mx)), QSub(y[i], my))]),
          QSum(w))

\* corr(x, y, w) = cov(x, y, w) / np.sqrt(cov(x, x, w) * cov(y, y, w))
corr(x, y, w) ==
  SDiv(SurdOf(cov(x, y, w)), Sqrt(QMul(cov(x, x, w), cov(y, y, w))))

\* np.std(v)
np_std(v) == Sqrt(QVar(v))

\* A regression that takes the magnitude of the correlation for the slope.
wls_unsigned(x, y, w) ==
  LET c == corr(x, y, w)
      slope == SDiv(SMul([c EXCEPT !.sg = Abs(c.sg)], np_std(y)), np_std(x))
      mxs == SMul(SurdOf(m_w(x, w)), slope)
  IN [raised |-> "",
      slope |-> Real(Zero, slope),
      intercept |-> Real(m_w(y, w), [mxs EXCEPT !.sg = -mxs.sg]),
      r2 |-> Real(c.sq, Surd(0, Zero))]

\* wls(x, y, w): nothing in m, cov, corr or wls tests its arguments or
\* raises; a division by zero gives inf or nan and the call returns.
wls(x, y, w) ==
  LET c == corr(x, y, w)
      slope == SDiv(SMul(c, np_std(y)), np_std(x))
      mxs == SMul(SurdOf(m_w(x, w)), slope)
  IN [raised |-> "",
      slope |-> Real(Zero, slope),
      intercept |-> Real(m_w(y, w), [mxs EXCEPT !.sg = -mxs.sg]),
      r2 |-> Real(c.sq, Surd(0, Zero))]

(***************************************************************************)
(* data_calibrator.py: the calibration window.                             *)
(***************************************************************************)
\* The files of the standards the file dialog can return, with the signal
\* each holds under mass 175: a single row (standard deviation 0), a
\* signal of mean 1 and standard deviation 1, and one of mean 2 and
\* standard deviation 2.
CalPaths == {"s0.txt", "s1.txt", "s2.txt"}

Signal175(path) ==
  CASE path = "s0.txt" -> <<2>> [] path = "s1.txt" -> <<0, 2>>
    [] path = "s2.txt" -> <<0, 4>>

CalFile(path) ==
  [header |-> <<LabelPush, <<"142">>, <<"175">> >>,
   nrows |-> Len(Signal175(path)),
   signal |-> << [r \in 1..Len(Signal175(path)) |-> 5], Signal175(path) >>]

\* The texts the entries can hold: validate="key" with str.isdigit keeps
\* the mass entry empty or a number, validate_calibration_number keeps a
\* concentration entry a text float() parses.
MassTexts == {"175", "193"}
ConcTexts == {"0.0e00", "1", "2"}

\* float(concentration_entry.get())
FloatOf(text) ==
  CASE text = "0.0e00" -> Zero [] text = "1" -> QInt(1) [] text = "2" -> QInt(2)

NewRow == [file_label |-> "", concentration_entry |-> "0.0e00"]

NoOutcome == [shown |-> "none", message |-> "", result |-> <<>>]
ShowError(msg) == [shown |-> "showerror", message |-> msg, result |-> <<>>]

NoMass == "No mass selected for the calibration."
ThreePoints == "At least three points are needed for the calibration."
ReadError == "An error occurred while reading the file"
MassMissing == "Mass not in available masses"

add_row ==
  /\ Len(rows) < MaxCalRows
  /\ rows' = Append(rows, NewRow)
  /\ cal_out' = NoOutcome
  /\ UNCHANGED mass_entry
  /\ UNCHANGED notCal

delete_row(i) ==
  /\ i \in 1..Len(rows)
  /\ rows' = SubSeq(rows, 1, i - 1) \o SubSeq(rows, i + 1, Len(rows))
  /\ cal_out' = NoOutcome
  /\ UNCHANGED mass_entry
  /\ UNCHANGED notCal

\* CalibrationApp.select_file: the dialog answered with a path.
row_select_file(i, path) ==
  /\ i \in 1..Len(rows)
  /\ rows' = [rows EXCEPT ![i].file_label = path]
  /\ cal_out' = NoOutcome
  /\ UNCHANGED mass_entry
  /\ UNCHANGED notCal

\* The user edits the concentration of a row.
type_concentration(i, text) ==
  /\ i \in 1..Len(rows)
  /\ rows' = [rows EXCEPT ![i].concentration_entry = text]
  /\ cal_out' = NoOutcome
  /\ UNCHANGED mass_entry
  /\ UNCHANGED notCal

\* The user types a mass.
type_mass(text) ==
  /\ mass_entry' = text
  /\ cal_out' = NoOutcome
  /\ UNCHANGED rows
  /\ UNCHANGED notCal

\* A test that lets two points through.
TooFewRows_two(rws) == Len(rws) < 2

\* if len(self.rows) < 3
TooFewRows(rws) == Len(rws) < 3

\* Lines 255-281: the loop over the rows from row i on, x, y and s being
\* the lists built so far.  open("") raises FileNotFoundError, an OSError.
RECURSIVE CalibrateRows(_, _, _, _, _, _)
CalibrateRows(rws, mass, i, x, y, s) ==
  IF i > Len(rws) THEN [error |-> NoOutcome, x |-> x, y |-> y, s |-> s]
  ELSE IF rws[i].file_label = ""
  THEN [error |-> ShowError(ReadError), x |-> x, y |-> y, s |-> s]
  ELSE LET res == CalibrateLoadOf(CalFile(rws[i].file_label), mass)
           signal == Floats(res.data[1])
       IN IF res.raised = "ValueError"
          THEN [error |-> [shown |-> "traceback", message |-> "ValueError",
                           result |-> <<>>],
                x |-> x, y |-> y, s |-> s]
          ELSE IF ~res.ok
          THEN [error |-> ShowError(MassMissing), x |-> x, y |-> y, s |-> s]
          ELSE CalibrateRows(rws, mass, i + 1,
                 Append(x, FloatOf(rws[i].concentration_entry)),
                 Append(y, QMean(signal)),
                 Append(s, np_std(signal)))

\* calibrate(): what it shows for the rows and the mass entry.
CalibrateOf(rws, mass_text) ==
  IF mass_text = "" THEN ShowError(NoMass)
  ELSE IF TooFewRows(rws) THEN ShowError(ThreePoints)
  ELSE LET loaded == CalibrateRows(rws, IntOf(mass_text), 1, <<>>, <<>>, <<>>)
           w == [i \in 1..Len(loaded.s) |-> QDiv(One, loaded.s[i].sq)]
       IN IF loaded.error # NoOutcome THEN loaded.error
          ELSE [shown |-> "figure", message |-> "",
                result |-> <<wls(loaded.x, loaded.y, w)>>]

calibrate ==
  /\ cal_out' = CalibrateOf(rows, mass_entry)
  /\ UNCHANGED <<rows, mass_entry>>
  /\ UNCHANGED notCal

\* create_widgets: three rows and an empty mass entry.
CalStart ==
  /\ rows = <<NewRow, NewRow, NewRow>>
  /\ mass_entry = ""
  /\ cal_out = NoOutcome

\* The calibration window not opened.
CalOff ==
  /\ rows = <<>>
  /\ mass_entry = ""
  /\ cal_out = NoOutcome

CalStep ==
  \/ add_row
  \/ \E i \in 1..Len(rows) : delete_row(i)
  \/ \E i \in 1..Len(rows) : \E path \in CalPaths : row_select_file(i, path)
  \/ \E i \in 1..Len(rows) : \E text \in ConcTexts : type_concentration(i, text)
  \/ \E text \in MassTexts : type_mass(text)
  \/ calibrate

\* The arguments wls is called with on its own: small integer
\* concentrations and intensities, and weights that are uniform, graded,
\* all zero, or of sum zero.
PointX == {0, 1, 2}
PointY == {0, 1, 2, 3}

WeightChoices(N) ==
  { [i \in 1..N |-> One],
    [i \in 1..N |-> Q(1, 2)],
    [i \in 1..N |-> QInt(i)],
    [i \in 1..N |-> Zero],
    [i \in 1..N |-> IF i = 1 THEN One ELSE IF i = 2 THEN QInt(-1) ELSE Zero] }

NoResult == [raised |-> "not called"]

call_wls ==
  /\ wls_out = NoResult
  /\ wls_out' = wls(wls_x, wls_y, wls_w)
  /\ UNCHANGED <<wls_x, wls_y, wls_w>>
  /\ UNCHANGED notWls

WlsStart ==
  /\ \E N \in 2..MaxPoints :
       /\ \E v \in [1..N -> PointX] : wls_x = Floats(v)
       /\ \E v \in [1..N -> PointY] : wls_y = Floats(v)
       /\ wls_w \in WeightChoices(N)
  /\ wls_out = NoResult

WlsOff ==
  /\ wls_x = <<>>
  /\ wls_y = <<>>
  /\ wls_w = <<>>
  /\ wls_out = NoResult

WlsStep == call_wls

(***************************************************************************)
(* Specifications.                                                         *)
(***************************************************************************)
InitSel == SelStart /\ LoadOff /\ DetOff /\ CalOff /\ WlsOff
NextSel == SelStep
SpecSel == InitSel /\ [][NextSel]_vars
FairSel == SpecSel /\ WF_vars(Worker)

InitLoad == LoadStart /\ SelOff /\ DetOff /\ CalOff /\ WlsOff
NextLoad == LoadStep
SpecLoad == InitLoad /\ [][NextLoad]_vars

InitDet == DetStart /\ SelOff /\ LoadOff /\ CalOff /\ WlsOff
NextDet == DetStep
SpecDet == InitDet /\ [][NextDet]_vars

InitCal == CalStart /\ SelOff /\ LoadOff /\ DetOff /\ WlsOff
NextCal == CalStep
SpecCal == InitCal /\ [][NextCal]_vars

InitWls == WlsStart /\ SelOff /\ LoadOff /\ DetOff /\ CalOff
NextWls == WlsStep
SpecWls == InitWls /\ [][NextWls]_vars

(***************************************************************************)
(* Properties of the selector.                                             *)
(***************************************************************************)
\* The input file the worker's i-th output file is extracted from.
InputOf(i) == disk[args.paths[i]]

Complete(i) == out[i].opened /\ Len(out[i].rows) = InputOf(i).nrows

Canceled == "Operation canceled by user."
Saved == "Modified files saved."

\* C1: every row written to an output file starts with the input's push
\* counter (column 0) and carries, under each requested mass m, the input's
\* value of the column whose header field is m.
C1_ColumnsFaithful ==
  \A i \in 1..Len(out) :
    \A r \in 1..Len(out[i].rows) :
      /\ out[i].rows[r][1] = Cell(InputOf(i), r - 1, 0)
      /\ \A j \in 1..Len(args.selected_numbers) :
           out[i].rows[r][j + 1] =
             Cell(InputOf(i), r - 1,
                  ColumnOf(InputOf(i), args.selected_numbers[j]))

\* C2: once the chunk holding a file's last data row is written, the
\* progress yielded for it is exactly 100.
C2_FinalProgressIs100 ==
  \A i \in 1..Len(out) :
    Complete(i) =>
      LET y == yields[i][Len(yields[i])] IN y.num = 100 * y.den

\* C3: every progress value yielded for a file lies in [0,100] and is
\* strictly greater than the value yielded for the preceding chunk.
C3_ProgressMonotone ==
  \A i \in 1..Len(yields) :
    /\ \A k \in 1..Len(yields[i]) :
         0 <= yields[i][k].num /\ yields[i][k].num <= 100 * yields[i][k].den
    /\ \A k \in 1..(Len(yields[i]) - 1) :
         yields[i][k].num * yields[i][k + 1].den
           < yields[i][k + 1].num * yields[i][k].den

\* C3 witness: a file read in two chunks, both yielded.
C3_Witness == \E i \in 1..Len(yields) : Len(yields[i]) >= 2 /\ Complete(i)

\* C4 (as claimed): once cancellation is requested the worker writes at most
\* the chunk in progress, opens no further file, and ends with the status
\* 'Operation canceled by user.'.
C4_Original ==
  cancelSnap.taken =>
    /\ ChunksWritten - cancelSnap.chunks <= 1
    /\ FilesOpened = cancelSnap.opens
    /\ (pc = "idle" => progress_var = Canceled)

\* C4 (amended): once cancellation is requested the worker writes at most
\* one more chunk and opens at most one more input/output file pair, the
\* worker eventually stops, and it ends with 'Operation canceled by user.'
\* when the request came before its final test of the flag.
C4_CancelBounded ==
  /\ [](cancelSnap.taken =>
          /\ ChunksWritten - cancelSnap.chunks <= 1
          /\ FilesOpened - cancelSnap.opens <= 1
          /\ (pc = "idle" /\ ~cancelSnap.tested => progress_var = Canceled))
  /\ (cancelSnap.taken ~> pc \in {"idle", "crashed"})

\* C4 witness: a run cancelled before its final test that wrote one more
\* chunk after the request and ended as cancelled.
C4_Witness ==
  /\ cancelSnap.taken /\ ~cancelSnap.tested
  /\ ChunksWritten = cancelSnap.chunks + 1
  /\ pc = "idle" /\ progress_var = Canceled

(***************************************************************************)
(* Properties of the channel index and the loads.                          *)
(***************************************************************************)
\* The identifiers of the file's header, by the file format: the fields
\* after the label field.
HeaderMasses(file) ==
  [k \in 1..(Len(file.header) - 1) |-> IntOf(At(file.header, k)[1])]

\* The series of the column at offset k of the file.
ColumnData(file, k) == [r \in 1..file.nrows |-> Cell(file, r - 1, k)]

\* An outcome that reports a missing channel: it names the missing
\* identifier and lists the available ones, and loads nothing.
ReportsMissing(res, file, wanted) ==
  /\ ~res.ok
  /\ res.says_mass # {}
  /\ res.says_mass \subseteq (wanted \ Range(HeaderMasses(file)))
  /\ res.says_available
  /\ res.available = HeaderMasses(file)
  /\ res.data = <<>>

\* C5: the identifier at header field K is loaded from column K: the
\* detector's whole-file load and the calibration's per-standard load of a
\* mass of the header both read the column under that mass, whatever the
\* label field is.
C5_LoadsHeaderColumn ==
  /\ (ld_det.ran /\ Range(ld_load) \subseteq Range(HeaderMasses(ld_file))) =>
       /\ ld_det.ok
       /\ \A j \in 1..Len(ld_load) :
            ld_det.data[j] = ColumnData(ld_file, ColumnOf(ld_file, ld_load[j]))
  /\ (ld_cal.ran /\ ld_mass \in Range(HeaderMasses(ld_file))) =>
       /\ ld_cal.ok
       /\ ld_cal.data[1] = ColumnData(ld_file, ColumnOf(ld_file, ld_mass))

\* C6: a load asked for an identifier that the header does not hold fails
\* with a report naming the missing identifier and listing the available
\* ones, and loads or writes nothing.
C6_MissingChannelReported ==
  /\ (ld_det.ran /\ ~(Range(ld_load) \subseteq Range(HeaderMasses(ld_file)))) =>
       ReportsMissing(ld_det, ld_file, Range(ld_load))
  /\ (ld_cal.ran /\ ld_mass \notin Range(HeaderMasses(ld_file))) =>
       ReportsMissing(ld_cal, ld_file, {ld_mass})
  /\ (ld_sel.ran /\ ld_mass \notin Range(HeaderMasses(ld_file))) =>
       ReportsMissing(ld_sel, ld_file, {ld_mass})

(***************************************************************************)
(* Properties of the peak detector and the event integrator.               *)
(***************************************************************************)
\* The series of a loaded mass.
SeriesOf(m) == At(ar, mass_dict[m])

\* The sum of col over the row indices a, a+1, ..., b-1.
RECURSIVE IntervalSum(_, _, _)
IntervalSum(col, a, b) ==
  IF a >= b THEN 0 ELSE At(col, a) + IntervalSum(col, a + 1, b)

\* The k-th integral is that of the k-th event of the selection mass.
IntegralsFollowEvents ==
  det_pc = "done" =>
    LET ev == events_by_mass[MASS_FOR_SELECTION]
    IN /\ Len(sum_I) = Len(ev)
       /\ \A k \in 1..Len(ev) :
            sum_I[k] = IntervalSum(SeriesOf(MASS_OF_INTEREST), ev[k][1], ev[k][2])

C8_EventsInBounds ==
  \A m \in DOMAIN events_by_mass :
    \A k \in 1..Len(events_by_mass[m]) :
      LET e == events_by_mass[m][k]
      IN 0 <= e[1] /\ e[1] <= e[2] /\ e[2] <= Len(SeriesOf(m)) - 1

\* C8 witness: an event strictly inside the series, and one that ends on
\* the last row.
C8_Witness ==
  /\ \E m \in DOMAIN events_by_mass : \E k \in 1..Len(events_by_mass[m]) :
       0 < events_by_mass[m][k][1]
         /\ events_by_mass[m][k][2] < Len(SeriesOf(m)) - 1
  /\ \E m \in DOMAIN events_by_mass : \E k \in 1..Len(events_by_mass[m]) :
       events_by_mass[m][k][2] = Len(SeriesOf(m)) - 1

\* C9: there is one integral per event of the selection channel, the k-th
\* being the sum of the channel of interest over the rows start..end-1 of
\* the k-th event, which is 0 when start = end.
C9_HalfOpenIntegral ==
  det_pc = "done" =>
    LET ev == events_by_mass[MASS_FOR_SELECTION]
        col == SeriesOf(MASS_OF_INTEREST)
    IN /\ Len(sum_I) = Len(ev)
       /\ \A k \in 1..Len(ev) :
            /\ sum_I[k] = SeqSum([r \in 1..(ev[k][2] - ev[k][1]) |->
                                    At(col, ev[k][1] + r - 1)])
            /\ (ev[k][1] = ev[k][2] => sum_I[k] = 0)

\* C9 witness: a finished run with two events, the second of several rows
\* and a positive integral.
C9_Witness ==
  /\ det_pc = "done"
  /\ Len(sum_I) >= 2
  /\ LET e == events_by_mass[MASS_FOR_SELECTION][2]
     IN e[2] - e[1] >= 2 /\ sum_I[2] > 0

\* C10: a channel none of whose peaks qualifies (a flat series for one) gets
\* an empty event list and a warning and no error; the loop goes on to the
\* remaining channels, and integrating no event gives no integral.
C10_NoPeaksIsNotAnError ==
  /\ det_pc # "error"
  /\ \A m \in DOMAIN peaks_by_mass :
       /\ m \in DOMAIN events_by_mass
       /\ (\A k \in 1..(Len(SeriesOf(m)) - 1) :
             At(SeriesOf(m), k) = At(SeriesOf(m), 0)) => peaks_by_mass[m] = <<>>
       /\ peaks_by_mass[m] = <<>> =>
            events_by_mass[m] = <<>> /\ m \in Range(warnings)
  /\ det_pc \in {"integrate", "done"} =>
       DOMAIN events_by_mass = Range(LOAD_MASSES)
  /\ (det_pc = "done" /\ events_by_mass[MASS_FOR_SELECTION] = <<>>) =>
       sum_I = <<>>

\* C10 witness: a finished run that warned for the flat first channel and
\* for the selection channel, found an event in the last channel and
\* produced no integral.
C10_Witness ==
  /\ det_pc = "done"
  /\ 142 \in Range(warnings) /\ MASS_FOR_SELECTION \in Range(warnings)
  /\ events_by_mass[195] # <<>>
  /\ sum_I = <<>>

(***************************************************************************)
(* Properties of the calibration.                                          *)
(***************************************************************************)
\* The rows whose file holds the mass of the mass entry: each gives a
\* calibration point.
RowHasPoint(row) ==
  /\ mass_entry # ""
  /\ row.file_label # ""
  /\ IntOf(mass_entry) \in Range(HeaderMasses(CalFile(row.file_label)))

\* The calibration point of a row: its concentration, and the mean and the
\* variance of the signal its file holds under the mass.
PointOf(row) ==
  LET file == CalFile(row.file_label)
      sig == Floats(ColumnData(file, ColumnOf(file, IntOf(mass_entry))))
  IN [x |-> FloatOf(row.concentration_entry), y |-> QMean(sig), var |-> QVar(sig)]

\* The points lie on one line.
Collinear(pts) ==
  \A i, j, k \in 1..Len(pts) :
    QMul(QSub(pts[j].y, pts[i].y), QSub(pts[k].x, pts[i].x))
      = QMul(QSub(pts[k].y, pts[i].y), QSub(pts[j].x, pts[i].x))

\* Points on a line that is neither vertical nor horizontal, each measured
\* with a positive standard deviation.
ProperLine(pts) ==
  /\ Collinear(pts)
  /\ \E i, j \in 1..Len(pts) : pts[i].x # pts[j].x
  /\ \E i, j \in 1..Len(pts) : pts[i].y # pts[j].y
  /\ \A i \in 1..Len(pts) : pts[i].var.n > 0

AllRowsHavePoints == \A i \in 1..Len(rows) : RowHasPoint(rows[i])

C11_Succeeds ==
  /\ Len(rows) = 3
  /\ AllRowsHavePoints
  /\ ProperLine([i \in 1..Len(rows) |-> PointOf(rows[i])])
  /\ cal_out.shown = "figure"

(***************************************************************************)
(* Properties of the weighted statistics and the regression.               *)
(***************************************************************************)
\* The float q as a result of wls.
Exactly(q) == Real(q, Surd(0, Zero))

\* The sum of the weights is 0 or the weighted self-covariance of x or of
\* y is 0.
Degenerate(x, y, w) ==
  \/ QSum(w) = Zero
  \/ cov(x, x, w) = Zero
  \/ cov(y, y, w) = Zero

\* C12: the regression fails with a degenerate-input error, and returns no
\* number, whenever the sum of the weights is 0 or the weighted
\* self-covariance of x or of y is 0.
C12_DegenerateRejected ==
  (wls_out # NoResult /\ Degenerate(wls_x, wls_y, wls_w)) =>
    wls_out.raised = "DegenerateInputError"

\* Two of the points with different x.
TwoPoints(x) ==
  CHOOSE p \in (1..Len(x)) \X (1..Len(x)) : x[p[1]] # x[p[2]]

\* The slope and the intercept of the line through two of the points.
LineSlope(x, y) ==
  LET p == TwoPoints(x)
  IN QDiv(QSub(y[p[2]], y[p[1]]), QSub(x[p[2]], x[p[1]]))

LineIntercept(x, y) ==
  LET p == TwoPoints(x)
  IN QSub(y[p[1]], QMul(LineSlope(x, y), x[p[1]]))

\* N >= 3 points on the line y = a*x + b, at least two distinct x values,
\* uniform positive weights.
OnALine(x, y, w) ==
  /\ Len(x) >= 3
  /\ \E i, j \in 1..Len(x) : x[i] # x[j]
  /\ \A i \in 1..Len(x) :
       y[i] = QAdd(QMul(LineSlope(x, y), x[i]), LineIntercept(x, y))
  /\ \A i \in 1..Len(w) : w[i] = w[1] /\ w[i].n > 0 /\ w[i].d > 0

PastConversion == det_pc \notin {"peaks", "integrate", "done"}

\* C13: a mass conversion with a calibration slope equal to zero fails with
\* a calibration-degenerate error and produces no mass value for any event.
C13_ZeroSlopeRejected ==
  (PastConversion /\ X1 = Zero) =>
    /\ det_pc = "CalibrationDegenerateError"
    /\ event_mass_interest = <<>>

(***************************************************************************)
(* Properties of the end of an extraction task.                            *)
(***************************************************************************)
\* A worker was started and it runs no more: it returned, or an exception
\* ended its thread.
TaskEnded == args.paths # <<>> /\ pc \in {"idle", "crashed"}

\* C15: whenever a started extraction task ends, by completing, by
\* observing the cancellation or by a failure, Save and Clear are enabled
\* again and Cancel is disabled.
C15_EndReturnsToIdle ==
  TaskEnded =>
    /\ save_button = "normal"
    /\ clear_button = "normal"
    /\ cancel_button = "disabled"

\* C16: 'Modified files saved.' is the final status only of a run that wrote
\* every chunk of every selected file; a run that ended with a chunk or a
\* file left out shows 'Operation canceled by user.'.
C16_SavedOnlyIfComplete ==
  TaskEnded =>
    /\ progress_var = Saved => \A i \in 1..Len(out) : Complete(i)
    /\ (\E i \in 1..Len(out) : ~Complete(i)) => progress_var = Canceled

====
